---- MODULE Spec2Model ----
(***************************************************************************)
(* A model of src/src/index.ts: named-channel request/response messaging   *)
(* between window contexts on top of window.postMessage.                   *)
(*                                                                         *)
(* A window context owns an ordered list of "message" listeners and a FIFO *)
(* queue of posted MessageEvents.  The three kinds of listener the module  *)
(* registers are the setup listener of processSetupMsg (onMessage), the    *)
(* responder listener of handle (messageHandler) and the per-call response *)
(* listener of request (messageHandler).  One delivery step dispatches the *)
(* event at the head of a queue to every listener of the context, in       *)
(* registration order, and runs the microtasks each listener leaves.       *)
(***************************************************************************)
EXTENDS Naturals, Sequences, FiniteSets

\* ------------------------------------------------------------------ bounds
MaxRequests == 2    \* request(...) calls in one behaviour
MaxSerial   == 3    \* request(...) calls in one behaviour with a single handler
MaxHandlers == 2    \* handle(...) calls in one behaviour

\* ---------------------------------------------------------------- universe
\* "main" and "child" run the module and share an origin; "other" is a
\* context of another origin that posts envelopes of its own making.
LibWindows == {"main", "child"}
Windows    == LibWindows \cup {"other"}

Origin(w) == IF w = "other" THEN "https://b.example" ELSE "https://a.example"

Channels == {"/greeting", "/message"}

\* Request payloads, and what the application's callback does with each.
Payloads      == {"john", "mary", "bad", "blank"}
GoodPayloads  == {"john", "mary"}
ErrorPayloads == {"john", "bad", "blank"}
Undefined     == "undefined"

\* The application callback handed to handle(): fulfils for "john" and
\* "mary" with a value that depends on the payload, rejects with
\* new Error("bad input") for "bad" and with new Error("") for "blank".
Callback(q) ==
  CASE q = "john"  -> [ok |-> TRUE,  value |-> "hello john", message |-> Undefined]
    [] q = "mary"  -> [ok |-> TRUE,  value |-> "hello mary", message |-> Undefined]
    [] q = "bad"   -> [ok |-> FALSE, value |-> Undefined,    message |-> "bad input"]
    [] OTHER       -> [ok |-> FALSE, value |-> Undefined,    message |-> ""]

\* --------------------------------------------------------------- envelopes
\* `request:/${channel}` and `response:/${channel}`: a prefix and the name.
RequestChannel(channel)  == <<"request:/", channel>>
ResponseChannel(channel) == <<"response:/", channel>>

\* ChannelMsg<T>.  An optional field that is absent is the empty sequence
\* for error and FALSE for isSetup.
NoError == <<>>

SetupMsg(channel) ==
  [channel |-> RequestChannel(channel), success |-> TRUE, isSetup |-> TRUE,
   data |-> Undefined, error |-> NoError]

RequestMsg(channel, message) ==
  [channel |-> RequestChannel(channel), success |-> TRUE, isSetup |-> FALSE,
   data |-> message, error |-> NoError]

\* A success response that leaves the callback's result out.
SuccessMsgNoData(channel, res) ==
  [channel |-> ResponseChannel(channel), success |-> TRUE, isSetup |-> FALSE,
   data |-> Undefined, error |-> NoError]

SuccessMsg(channel, res) ==
  [channel |-> ResponseChannel(channel), success |-> TRUE, isSetup |-> FALSE,
   data |-> res, error |-> NoError]

ErrorMsg(channel, message) ==
  [channel |-> ResponseChannel(channel), success |-> FALSE, isSetup |-> FALSE,
   data |-> Undefined, error |-> <<[msg |-> message, stack |-> "stack"]>>]

\* ------------------------------------------------------------------- state
VARIABLES
  parent,      \* window.parent of each context
  created,     \* created[w][c]: createChannel(c) has run in w
  isSetup,     \* isSetup[w][c]: the flag of the handle createChannel(c) made in w
  listeners,   \* listeners[w]: the "message" listeners of w, in registration order
  inbox,       \* inbox[w]: MessageEvents posted to w and not yet dispatched
  req,         \* req[r]: the r-th call of request, in the order of the calls
  handlers,    \* handlers[w][c]: number of handle(...) calls on the handle of w, c
  running,     \* callback invocations whose promise has not settled
  callLog      \* callLog[w]: every callback invocation made in w, in order

vars == <<parent, created, isSetup, listeners, inbox, req, handlers, running,
          callLog>>

\* The calls of request made so far.
Requests == DOMAIN req

\* A call of request as it starts: by the context w on its handle of the
\* channel, with the arguments message and windowObj.
NewRequest(w, channel, message, windowObj) ==
  [st |-> "start", win |-> w, chan |-> channel, message |-> message,
   windowObj |-> windowObj, waited |-> FALSE, posted |-> 0, settles |-> 0,
   value |-> Undefined]

Range(s) == {s[i] : i \in 1..Len(s)}

Remove(s, x) == SelectSeq(s, LAMBDA y : y # x)

\* ------------------------------------------------------------- postMessage
\* target.postMessage(msg, targetOrigin) by the context `from`: the event is
\* queued at the target unless targetOrigin names another origin than the
\* target's.  "*" is no restriction; "/" (the default of the one-argument
\* call) is the sender's own origin.
PostMessage(box, from, target, msg, targetOrigin) ==
  IF \/ targetOrigin = "*"
     \/ targetOrigin = "/" /\ Origin(target) = Origin(from)
     \/ targetOrigin = Origin(target)
  THEN [box EXCEPT ![target] =
          Append(@, [origin |-> Origin(from), source |-> from, data |-> msg])]
  ELSE box

\* ------------------------------------------------- the program state as a value
\* The part of the state a listener can change, as one record, so that the
\* listeners of one dispatch are applied one after the other.
Store ==
  [isSetup |-> isSetup, listeners |-> listeners, inbox |-> inbox, req |-> req,
   running |-> running, callLog |-> callLog]

SetupListener(channel, waiter)  == [kind |-> "setup",    chan |-> channel, id |-> waiter]
HandleListener(channel, k)      == [kind |-> "handle",   chan |-> channel, id |-> k]
ResponseListener(channel, r)    == [kind |-> "response", chan |-> channel, id |-> r]

\* The body of request with a timer that rejects the call as it is posted.
RequestBodyTimesOut(S, r) ==
  LET q == S.req[r] IN
  [S EXCEPT
     !.listeners[q.win] = Append(@, ResponseListener(q.chan, r)),
     !.inbox = PostMessage(@, q.win, q.windowObj, RequestMsg(q.chan, q.message), "*"),
     !.req[r].st = "rejected",
     !.req[r].value = "timeout",
     !.req[r].posted = @ + 1]

\* The body of request clearing the flag of its handle once it has posted.
RequestBodyResetsFlag(S, r) ==
  LET q == S.req[r] IN
  [S EXCEPT
     !.listeners[q.win] = Append(@, ResponseListener(q.chan, r)),
     !.inbox = PostMessage(@, q.win, q.windowObj, RequestMsg(q.chan, q.message), "*"),
     !.req[r].st = "pending",
     !.req[r].posted = @ + 1,
     !.isSetup[q.win][q.chan] = FALSE]

\* ------------------------------------------------------------------ request
\* The body of the promise request returns (index.ts 176-214), run once
\* waitChildWindowSetup has returned: register messageHandler, post the
\* request envelope to windowObj with targetOrigin "*".
RequestBody(S, r) ==
  LET q == S.req[r] IN
  [S EXCEPT
     !.listeners[q.win] = Append(@, ResponseListener(q.chan, r)),
     !.inbox = PostMessage(@, q.win, q.windowObj, RequestMsg(q.chan, q.message), "*"),
     !.req[r].st = "pending",
     !.req[r].posted = @ + 1]

\* resolve(value) / reject(reason) of the promise of call r: the first call
\* settles the promise, later calls are counted and change nothing else.
SettlePromise(S, r, how, v) ==
  IF S.req[r].st = "pending"
  THEN [S EXCEPT !.req[r].st = how, !.req[r].value = v, !.req[r].settles = @ + 1]
  ELSE [S EXCEPT !.req[r].settles = @ + 1]

Falsy(v) == v = Undefined \/ v = ""

\* channelMsg.error?.msg
ErrorMsgOf(msg) == IF msg.error = NoError THEN Undefined ELSE msg.error[1].msg

\* The reason taken from the envelope as it is.
RejectReasonRaw(msg) == ErrorMsgOf(msg)

\* channelMsg.error?.msg || "Unknown error"
RejectReason(msg) ==
  IF Falsy(ErrorMsgOf(msg)) THEN "Unknown error" ELSE ErrorMsgOf(msg)

\* The response listener without its origin check.
RequestOriginAny(w, event) == TRUE

\* event.origin !== window.location.origin, at each of its three sites.
RequestOriginOk(w, event) == event.origin = Origin(w)
HandleOriginOk(w, event)  == event.origin = Origin(w)
SetupOriginOk(w, event)   == event.origin = Origin(w)

\* The response listener matching the direction of the topic only.
RequestTopicPrefixOnly(l, event) == event.data.channel[1] = "response:/"

\* channelMsg.channel !== <topic>, at each of its three sites.
RequestTopicOk(l, event) == event.data.channel = ResponseChannel(l.chan)
HandleTopicOk(l, event)  == event.data.channel = RequestChannel(l.chan)
SetupTopicOk(l, event)   == event.data.channel = RequestChannel(l.chan)

\* removeEventListener taking every response listener of the channel away.
RemoveAllResponseListeners(S, w, l) ==
  [S EXCEPT !.listeners[w] =
     SelectSeq(@, LAMBDA y : ~(y.kind = "response" /\ y.chan = l.chan))]

\* The response listener left registered.
KeepResponseListener(S, w, l) == S

\* window.removeEventListener("message", messageHandler) of request.
RemoveResponseListener(S, w, l) == [S EXCEPT !.listeners[w] = Remove(@, l)]

\* messageHandler taking envelopes from the context it posted to only.
RequestMessageHandlerChecksSource(S, w, event, l) ==
  IF ~RequestOriginOk(w, event) THEN S
  ELSE IF ~RequestTopicOk(l, event) THEN S
  ELSE IF event.source # S.req[l.id].windowObj THEN S
  ELSE RemoveResponseListener(
         IF event.data.success
         THEN SettlePromise(S, l.id, "resolved", event.data.data)
         ELSE SettlePromise(S, l.id, "rejected", RejectReason(event.data)),
         w, l)

\* messageHandler taking a success only if it is the answer to its own payload.
RequestMessageHandlerCorrelated(S, w, event, l) ==
  IF ~RequestOriginOk(w, event) THEN S
  ELSE IF ~RequestTopicOk(l, event) THEN S
  ELSE IF /\ event.data.success
          /\ event.data.data # Callback(S.req[l.id].message).value THEN S
  ELSE RemoveResponseListener(
         IF event.data.success
         THEN SettlePromise(S, l.id, "resolved", event.data.data)
         ELSE SettlePromise(S, l.id, "rejected", RejectReason(event.data)),
         w, l)

\* request's messageHandler (index.ts 177-202).
RequestMessageHandler(S, w, event, l) ==
  IF ~RequestOriginOk(w, event) THEN S
  ELSE IF ~RequestTopicOk(l, event) THEN S
  ELSE RemoveResponseListener(
         IF event.data.success
         THEN SettlePromise(S, l.id, "resolved", event.data.data)
         ELSE SettlePromise(S, l.id, "rejected", RejectReason(event.data)),
         w, l)

\* onMessage resolving its promise only when it is the one that sets the flag.
SetupObservedFirstOnly(S, w, l) ==
  LET S1 == [S EXCEPT !.isSetup[w][l.chan] = TRUE,
                      !.listeners[w] = Remove(@, l)]
  IN IF l.id = 0 \/ S.isSetup[w][l.chan] THEN S1 ELSE RequestBody(S1, l.id)

\* -------------------------------------------------------------------- setup
\* What onMessage does on a setup announcement (index.ts 45-47): set the
\* flag, remove itself, resolve the promise of processSetupMsg.  Resolving
\* the promise of a waiter resumes its request call in the microtasks that
\* run before the next listener.
SetupObserved(S, w, l) ==
  LET S1 == [S EXCEPT !.isSetup[w][l.chan] = TRUE,
                      !.listeners[w] = Remove(@, l)]
  IN IF l.id = 0 THEN S1 ELSE RequestBody(S1, l.id)

\* processSetupMsg's onMessage (index.ts 34-51).
OnMessage(S, w, event, l) ==
  IF ~SetupOriginOk(w, event) THEN S
  ELSE IF ~SetupTopicOk(l, event) THEN S
  ELSE IF event.data.isSetup THEN SetupObserved(S, w, l)
  ELSE S

\* The callback started by a messageHandler that also marks the handle set up.
InvokeCallbackSetsFlag(S, w, event, l) ==
  LET call == [win |-> w, chan |-> l.chan, k |-> l.id, data |-> event.data.data,
               source |-> event.source, origin |-> event.origin]
  IN [S EXCEPT !.running = Append(@, call),
               !.callLog[w] = Append(@, [chan |-> l.chan, k |-> l.id,
                                         data |-> event.data.data]),
               !.isSetup[w][l.chan] = TRUE]

\* The callback started by a messageHandler that removes itself.
InvokeCallbackOnce(S, w, event, l) ==
  LET call == [win |-> w, chan |-> l.chan, k |-> l.id, data |-> event.data.data,
               source |-> event.source, origin |-> event.origin]
  IN [S EXCEPT !.running = Append(@, call),
               !.callLog[w] = Append(@, [chan |-> l.chan, k |-> l.id,
                                         data |-> event.data.data]),
               !.listeners[w] = Remove(@, l)]

\* ------------------------------------------------------------------- handle
\* callback(channelMsg.data) (index.ts 124): the callback starts; its promise
\* settles in a later step.
InvokeCallback(S, w, event, l) ==
  LET call == [win |-> w, chan |-> l.chan, k |-> l.id, data |-> event.data.data,
               source |-> event.source, origin |-> event.origin]
  IN [S EXCEPT !.running = Append(@, call),
               !.callLog[w] = Append(@, [chan |-> l.chan, k |-> l.id,
                                         data |-> event.data.data])]

\* messageHandler without the isSetup check.
HandleMessageHandlerNoSkip(S, w, event, l) ==
  IF ~HandleOriginOk(w, event) THEN S
  ELSE IF ~HandleTopicOk(l, event) THEN S
  ELSE InvokeCallback(S, w, event, l)

\* messageHandler answering only for the first registration on the handle.
HandleMessageHandlerFirstOnly(S, w, event, l) ==
  IF ~HandleOriginOk(w, event) THEN S
  ELSE IF ~HandleTopicOk(l, event) THEN S
  ELSE IF event.data.isSetup \/ l.id # 1 THEN S
  ELSE InvokeCallback(S, w, event, l)

\* handle's messageHandler (index.ts 103-154).  It never removes itself.
HandleMessageHandler(S, w, event, l) ==
  IF ~HandleOriginOk(w, event) THEN S
  ELSE IF ~HandleTopicOk(l, event) THEN S
  ELSE IF event.data.isSetup THEN S
  ELSE InvokeCallback(S, w, event, l)

\* ----------------------------------------------------------------- dispatch
Invoke(S, w, event, l) ==
  CASE l.kind = "setup"    -> OnMessage(S, w, event, l)
    [] l.kind = "handle"   -> HandleMessageHandler(S, w, event, l)
    [] l.kind = "response" -> RequestMessageHandler(S, w, event, l)

\* The event goes to the listeners registered when the dispatch began, in
\* order; one removed meanwhile is skipped, one added meanwhile is not run.
RECURSIVE Dispatch(_, _, _, _)
Dispatch(S0, w, event, ls) ==
  CHOOSE R \in
    {IF ls = <<>> THEN S
     ELSE Dispatch(IF Head(ls) \in Range(S.listeners[w])
                   THEN Invoke(S, w, event, Head(ls)) ELSE S,
                   w, event, Tail(ls)) : S \in {S0}} : TRUE

\* ------------------------------------------------------------------ actions
\* A request call whose flag was true has its body waiting in the microtask
\* queue of its context: no task of that context runs before it.
MicrotaskPending(w) == \E r \in Requests : req[r].st = "called" /\ req[r].win = w

\* createChannel starting with the flag set if a handler is registered already.
CreateChannelRemembers(w, channel) ==
  /\ ~created[w][channel]
  /\ created' = [created EXCEPT ![w][channel] = TRUE]
  /\ isSetup' = [isSetup EXCEPT ![w][channel] =
                   \E t \in LibWindows : handlers[t][channel] > 0]
  /\ listeners' = [listeners EXCEPT ![w] = Append(@, SetupListener(channel, 0))]
  /\ UNCHANGED <<parent, inbox, req, handlers, running, callLog>>

\* createChannel(channel) in w (index.ts 21-79): a new flag, false, and the
\* standing setup listener of the processSetupMsg() call of line 55.
CreateChannel(w, channel) ==
  /\ ~created[w][channel]
  /\ created' = [created EXCEPT ![w][channel] = TRUE]
  /\ isSetup' = [isSetup EXCEPT ![w][channel] = FALSE]
  /\ listeners' = [listeners EXCEPT ![w] = Append(@, SetupListener(channel, 0))]
  /\ UNCHANGED <<parent, inbox, req, handlers, running, callLog>>

\* The number of handle(...) calls made so far.
HandleCalls ==
  LET n(w) == handlers[w]["/greeting"] + handlers[w]["/message"]
  IN n("main") + n("child")

\* handle(callback) on the handle of w, channel (index.ts 85-158): post the
\* setup announcement to window.parent, then register messageHandler.
Handle(w, channel) ==
  /\ created[w][channel]
  /\ inbox' = PostMessage(inbox, w, parent[w], SetupMsg(channel), "/")
  /\ handlers' = [handlers EXCEPT ![w][channel] = @ + 1]
  /\ listeners' = [listeners EXCEPT ![w] =
                     Append(@, HandleListener(channel, handlers[w][channel] + 1))]
  /\ UNCHANGED <<parent, created, isSetup, req, running, callLog>>

\* waitChildWindowSetup returning whatever the flag is.
WaitNoGate(S, r) == [S EXCEPT !.req[r].st = "called"]

\* waitChildWindowSetup (index.ts 57-63), up to its await, for call r: with
\* the flag set it returns, otherwise it calls processSetupMsg, which
\* registers one more setup listener, and waits for its promise.
WaitChildWindowSetup(S, r) ==
  LET q == S.req[r] IN
  IF S.isSetup[q.win][q.chan]
  THEN [S EXCEPT !.req[r].st = "called"]
  ELSE [S EXCEPT !.req[r].st = "waiting",
                 !.req[r].waited = TRUE,
                 !.listeners[q.win] = Append(@, SetupListener(q.chan, r))]

\* request(message, windowObj) on the handle of w, channel, up to the first
\* await (index.ts 165-173).
Request(w, channel, message, windowObj) ==
  /\ created[w][channel]
  /\ \E S \in {WaitChildWindowSetup(
                  [Store EXCEPT !.req = Append(@, NewRequest(w, channel, message,
                                                            windowObj))],
                  Len(req) + 1)} :
       /\ isSetup' = S.isSetup
       /\ listeners' = S.listeners
       /\ inbox' = S.inbox
       /\ req' = S.req
       /\ running' = S.running
       /\ callLog' = S.callLog
  /\ UNCHANGED <<parent, created, handlers>>

\* The microtask that resumes a request call whose flag was already true.
Resume(r) ==
  /\ req[r].st = "called"
  /\ \E S \in {RequestBody(Store, r)} :
       /\ isSetup' = S.isSetup
       /\ listeners' = S.listeners
       /\ inbox' = S.inbox
       /\ req' = S.req
       /\ running' = S.running
       /\ callLog' = S.callLog
  /\ UNCHANGED <<parent, created, handlers>>

\* The event loop of w dispatches the oldest posted MessageEvent.
Deliver(w) ==
  /\ inbox[w] # <<>>
  /\ ~MicrotaskPending(w)
  /\ \E S \in {Dispatch([Store EXCEPT !.inbox[w] = Tail(@)], w, Head(inbox[w]),
                         listeners[w])} :
        /\ isSetup' = S.isSetup
        /\ listeners' = S.listeners
        /\ inbox' = S.inbox
        /\ req' = S.req
        /\ running' = S.running
        /\ callLog' = S.callLog
  /\ UNCHANGED <<parent, created, handlers>>

\* The response posted as a success whatever the callback's promise did.
ResponseMsgAlwaysOk(call) == SuccessMsg(call.chan, Callback(call.data).value)

\* The envelope handle posts when the callback's promise settles
\* (index.ts 126-130 and 139-147).
ResponseMsg(call) ==
  IF Callback(call.data).ok
  THEN SuccessMsg(call.chan, Callback(call.data).value)
  ELSE ErrorMsg(call.chan, Callback(call.data).message)

\* The promise of a running callback settles (index.ts 125-152): the
\* response goes to event.source with targetOrigin event.origin.
Settle(i) ==
  /\ i \in DOMAIN running
  /\ ~MicrotaskPending(running[i].win)
  /\ inbox' = PostMessage(inbox, running[i].win, running[i].source,
                          ResponseMsg(running[i]), running[i].origin)
  /\ running' = SubSeq(running, 1, i - 1) \o SubSeq(running, i + 1, Len(running))
  /\ UNCHANGED <<parent, created, isSetup, listeners, req, handlers, callLog>>

\* Envelopes a script of another origin may post: any topic of any channel,
\* with any success and isSetup fields.
ForeignMsgs ==
  {[channel |-> t, success |-> s, isSetup |-> u, data |-> "forged", error |-> NoError] :
     t \in {RequestChannel(c) : c \in Channels} \cup {ResponseChannel(c) : c \in Channels},
     s \in BOOLEAN, u \in BOOLEAN}

\* An envelope of the foreign context is waiting in some queue.
ForeignQueued ==
  \E w \in Windows : \E i \in DOMAIN inbox[w] : inbox[w][i].source = "other"

\* The foreign context posts an envelope with targetOrigin "*", one at a time.
ForeignPost(target, msg) ==
  /\ ~ForeignQueued
  /\ inbox' = PostMessage(inbox, "other", target, msg, "*")
  /\ UNCHANGED <<parent, created, isSetup, listeners, req, handlers, running,
                 callLog>>

\* Response envelopes a script of the page's own origin may post by hand:
\* with or without success, with no error field, with an error that has no
\* message, and with an error that has one.
CraftedMsgs ==
  {[channel |-> ResponseChannel(c), success |-> s, isSetup |-> FALSE,
    data |-> "crafted", error |-> e] :
     c \in {"/greeting"}, s \in BOOLEAN,
     e \in {NoError, <<[msg |-> Undefined, stack |-> ""]>>,
                     <<[msg |-> "boom", stack |-> ""]>>}}

\* A hand-made envelope is waiting in some queue.
CraftedQueued ==
  \E w \in Windows : \E i \in DOMAIN inbox[w] : inbox[w][i].data.data = "crafted"

\* A script running in the context `from` posts an envelope with
\* targetOrigin "*", one at a time.
ScriptPost(from, target, msg) ==
  /\ ~CraftedQueued
  /\ inbox' = PostMessage(inbox, from, target, msg, "*")
  /\ UNCHANGED <<parent, created, isSetup, listeners, req, handlers, running,
                 callLog>>

\* ------------------------------------------------------------ specification
\* "child" is either an iframe of "main" (window.parent is "main") or a
\* window "main" opened (a top-level window: window.parent is itself).
Parents ==
  {[w \in Windows |-> IF w = "child" THEN p ELSE w] : p \in {"main", "child"}}

Init ==
  /\ parent \in Parents
  /\ created = [w \in LibWindows |-> [c \in Channels |-> TRUE]]
  /\ isSetup = [w \in LibWindows |-> [c \in Channels |-> FALSE]]
  /\ listeners = [w \in Windows |->
                    IF w \in LibWindows
                    THEN <<SetupListener("/greeting", 0), SetupListener("/message", 0)>>
                    ELSE <<>>]
  /\ inbox = [w \in Windows |-> <<>>]
  /\ req = <<>>
  /\ handlers = [w \in LibWindows |-> [c \in Channels |-> 0]]
  /\ running = <<>>
  /\ callLog = [w \in LibWindows |-> <<>>]

\* One channel, requests of "main" to "child": up to MaxHandlers handle
\* calls and MaxRequests request calls.
Next ==
  \/ \E w \in {"child"}, c \in {"/greeting"} :
       HandleCalls < MaxHandlers /\ Handle(w, c)
  \/ \E w \in {"main"}, c \in {"/greeting"}, q \in {"john"}, t \in {"child"} :
       Len(req) < MaxRequests /\ Request(w, c, q, t)
  \/ \E r \in Requests : Resume(r)
  \/ \E w \in LibWindows : Deliver(w)
  \/ \E i \in DOMAIN running : Settle(i)

Spec == Init /\ [][Next]_vars

\* The same with a single handle call, up to MaxSerial request calls and
\* two payloads, under fair scheduling: the event loop runs every queued task
\* and microtask, and every callback's promise settles.
OneHandlerNext ==
  \/ \E w \in {"child"}, c \in {"/greeting"} : HandleCalls = 0 /\ Handle(w, c)
  \/ \E w \in {"main"}, c \in {"/greeting"}, q \in GoodPayloads, t \in {"child"} :
       Len(req) < MaxSerial /\ Request(w, c, q, t)
  \/ \E r \in Requests : Resume(r)
  \/ \E w \in LibWindows : Deliver(w)
  \/ \E i \in DOMAIN running : Settle(i)

Fairness ==
  /\ WF_vars(\E r \in Requests : Resume(r))
  /\ \A w \in LibWindows : WF_vars(Deliver(w))
  /\ WF_vars(\E i \in DOMAIN running : Settle(i))

FairSpec == Init /\ [][OneHandlerNext]_vars /\ Fairness

\* A single handle call and callbacks that may reject: with new Error("bad
\* input") for "bad", with new Error("") for "blank".
ErrorNext ==
  \/ \E w \in {"child"}, c \in {"/greeting"} : HandleCalls = 0 /\ Handle(w, c)
  \/ \E w \in {"main"}, c \in {"/greeting"}, q \in ErrorPayloads, t \in {"child"} :
       Len(req) < MaxSerial /\ Request(w, c, q, t)
  \/ \E r \in Requests : Resume(r)
  \/ \E w \in LibWindows : Deliver(w)
  \/ \E i \in DOMAIN running : Settle(i)

ErrorSpec == Init /\ [][ErrorNext]_vars

\* A context of another origin posts envelopes of its own making to both
\* contexts, while "main" calls request and "child" calls handle once.
ForeignNext ==
  \/ \E w \in {"child"}, c \in {"/greeting"} : HandleCalls = 0 /\ Handle(w, c)
  \/ \E w \in {"main"}, c \in {"/greeting"}, q \in {"john"}, t \in {"child"} :
       Len(req) < MaxRequests /\ Request(w, c, q, t)
  \/ \E r \in Requests : Resume(r)
  \/ \E w \in LibWindows : Deliver(w)
  \/ \E i \in DOMAIN running : Settle(i)
  \/ \E t \in LibWindows, m \in ForeignMsgs : ForeignPost(t, m)

ForeignSpec == Init /\ [][ForeignNext]_vars

\* Two channels on the one transport, each with at most one handle call.
TwoChannelNext ==
  \/ \E w \in {"child"}, c \in Channels : handlers[w][c] = 0 /\ Handle(w, c)
  \/ \E w \in {"main"}, c \in Channels, q \in {"john"}, t \in {"child"} :
       Len(req) < MaxRequests /\ Request(w, c, q, t)
  \/ \E r \in Requests : Resume(r)
  \/ \E w \in LibWindows : Deliver(w)
  \/ \E i \in DOMAIN running : Settle(i)

TwoChannelSpec == Init /\ [][TwoChannelNext]_vars

\* Nothing answers: the callback "child" registered never settles its
\* promise, "main" also posts requests to itself, where no handler is
\* registered, and the only response envelopes are those of another origin.
SilentNext ==
  \/ \E w \in {"child"}, c \in {"/greeting"} : HandleCalls = 0 /\ Handle(w, c)
  \/ \E w \in {"main"}, c \in {"/greeting"}, q \in {"john"}, t \in LibWindows :
       Len(req) < MaxRequests /\ Request(w, c, q, t)
  \/ \E r \in Requests : Resume(r)
  \/ \E w \in LibWindows : Deliver(w)
  \/ \E t \in {"main"}, m \in ForeignMsgs :
       m.channel = ResponseChannel("/greeting") /\ ForeignPost(t, m)

SilentSpec == Init /\ [][SilentNext]_vars

\* "main" posts requests to "child" and to itself; "child" calls handle once,
\* and a script in "child" posts response envelopes of its own making to
\* "main".
CraftedNext ==
  \/ \E w \in {"child"}, c \in {"/greeting"} : HandleCalls = 0 /\ Handle(w, c)
  \/ \E w \in {"main"}, c \in {"/greeting"}, q \in {"john"}, t \in LibWindows :
       Len(req) < MaxRequests /\ Request(w, c, q, t)
  \/ \E r \in Requests : Resume(r)
  \/ \E w \in LibWindows : Deliver(w)
  \/ \E i \in DOMAIN running : Settle(i)
  \/ \E m \in CraftedMsgs : ScriptPost("child", "main", m)

CraftedSpec == Init /\ [][CraftedNext]_vars

\* "main" has not run createChannel yet when the behaviour starts: it has no
\* flag and no listener.  "child" has, and may call handle at any time.
LateInit ==
  /\ parent \in Parents
  /\ created = [w \in LibWindows |-> [c \in Channels |-> w = "child"]]
  /\ isSetup = [w \in LibWindows |-> [c \in Channels |-> FALSE]]
  /\ listeners = [w \in Windows |->
                    IF w = "child"
                    THEN <<SetupListener("/greeting", 0), SetupListener("/message", 0)>>
                    ELSE <<>>]
  /\ inbox = [w \in Windows |-> <<>>]
  /\ req = <<>>
  /\ handlers = [w \in LibWindows |-> [c \in Channels |-> 0]]
  /\ running = <<>>
  /\ callLog = [w \in LibWindows |-> <<>>]

LateNext ==
  \/ \E w \in {"main"}, c \in {"/greeting"} : CreateChannel(w, c)
  \/ \E w \in {"child"}, c \in {"/greeting"} :
       HandleCalls < MaxHandlers /\ Handle(w, c)
  \/ \E w \in {"main"}, c \in {"/greeting"}, q \in {"john"}, t \in {"child"} :
       Len(req) < MaxRequests /\ Request(w, c, q, t)
  \/ \E r \in Requests : Resume(r)
  \/ \E w \in LibWindows : Deliver(w)
  \/ \E i \in DOMAIN running : Settle(i)

LateSpec == LateInit /\ [][LateNext]_vars

\* =================================================================== properties
Settled(r)   == req[r].st \in {"resolved", "rejected"}
Unsettled(r) == req[r].st \in {"called", "waiting", "pending"}

\* Call r settles in this step.
Settles(r) == req[r].st = "pending" /\ req'[r].st # "pending"

\* No other call on the channel handle of call r is under way.
OnlyPending(r) ==
  \A p \in Requests \ {r} :
    (req[p].win = req[r].win /\ req[p].chan = req[r].chan) => ~Unsettled(p)

\* What is in flight for the handle of w, channel: request envelopes of w not
\* yet dispatched, callbacks they started and not yet settled, and response
\* envelopes in the queue of w.
InFlight(w, channel) ==
  LET queued(t) == {i \in 1..Len(inbox[t]) :
                      /\ inbox[t][i].source = w
                      /\ inbox[t][i].data.channel = RequestChannel(channel)
                      /\ ~inbox[t][i].data.isSetup}
      answers == {i \in 1..Len(inbox[w]) :
                      inbox[w][i].data.channel = ResponseChannel(channel)}
      started == {i \in 1..Len(running) :
                      running[i].source = w /\ running[i].chan = channel}
  IN Cardinality(queued("main")) + Cardinality(queued("child"))
       + Cardinality(answers) + Cardinality(started)

\* The callback invocations made in w for the channel, in order.
CallsOn(w, channel) == SelectSeq(callLog[w], LAMBDA e : e.chan = channel)

\* The calls whose request envelope went to w on the channel.
PostedTo(w, channel) ==
  {p \in Requests : req[p].posted > 0 /\ req[p].windowObj = w /\ req[p].chan = channel}

\* The case of the round trip: call r is the one call under way on its
\* handle, the target has one handler on the channel, and the callback
\* fulfils for the payload of r.
RoundTripCase(r) ==
  /\ OnlyPending(r)
  /\ isSetup[req[r].win][req[r].chan]
  /\ Origin(req[r].win) = Origin(req[r].windowObj)
  /\ handlers[req[r].windowObj][req[r].chan] = 1
  /\ Callback(req[r].message).ok

\* The handler has run once for each request envelope sent to it, the last
\* time with the payload of r.
InvokedOnceWith(r) ==
  LET log == CallsOn(req[r].windowObj, req[r].chan) IN
  /\ Len(log) = Cardinality(PostedTo(req[r].windowObj, req[r].chan))
  /\ log # <<>>
  /\ log[Len(log)].data = req[r].message

RoundTripResult(r) ==
  /\ req'[r].st = "resolved"
  /\ req'[r].value = Callback(req[r].message).value
  /\ InvokedOnceWith(r)

\* C1 as stated: a call that settles while no other call is pending on its
\* channel, with one handler that fulfils with R for its payload Q, resolves
\* with R, the handler having run once for it, with Q.
C1_RoundTripAsStated ==
  [][\A r \in Requests : (Settles(r) /\ RoundTripCase(r)) => RoundTripResult(r)]_vars

\* C1 (amended): the same, when besides no other call being pending nothing
\* of an earlier call on the channel is still in flight (the response being
\* dispatched is the only envelope or callback invocation outstanding).  And
\* such a call does settle: while it is pending something is in flight for
\* its handle, and under fair scheduling what is in flight always drains.
C1_RoundTrip ==
  /\ [][\A r \in Requests :
          (Settles(r) /\ RoundTripCase(r) /\ InFlight(req[r].win, req[r].chan) = 1)
            => RoundTripResult(r)]_vars
  /\ [](\A r \in Requests :
          (req[r].st = "pending" /\ RoundTripCase(r))
            => InFlight(req[r].win, req[r].chan) > 0)
  /\ []<>(InFlight("main", "/greeting") = 0)

\* A third call, made after two earlier ones have settled, has resolved
\* with the value the callback returns for its payload.
C1_Witness ==
  /\ Len(req) = 3
  /\ req[1].st = "resolved" /\ req[2].st = "resolved"
  /\ req[3].st = "resolved" /\ ~req[3].waited
  /\ req[3].message = "mary" /\ req[3].value = "hello mary"
  /\ req[1].message = "john" /\ req[2].message = "john"
  /\ handlers["child"]["/greeting"] = 1
  /\ InFlight("main", "/greeting") = 0

\* C2: when the handler rejects with an error whose message is M, the call
\* it answers rejects with M as its reason, for every string M.  (The call
\* is taken alone on its channel, as in C1, so that the response is its own.)
C2_RejectsWithMessage ==
  [][\A r \in Requests :
       (/\ Settles(r) /\ OnlyPending(r)
        /\ InFlight(req[r].win, req[r].chan) = 1
        /\ handlers[req[r].windowObj][req[r].chan] = 1
        /\ ~Callback(req[r].message).ok)
         => /\ req'[r].st = "rejected"
            /\ req'[r].value = Callback(req[r].message).message]_vars

\* C3: "main" opens "child" as a top-level window (its window.parent is
\* itself); "child" calls handle with a callback that fulfils and "main"
\* calls request(data, child).  Under fair delivery the call resolves.
C3_OpenedChildResolves ==
  (/\ parent["child"] = "child"
   /\ handlers["child"]["/greeting"] = 1
   /\ Len(req) >= 1 /\ req[1].windowObj = "child" /\ Callback(req[1].message).ok)
    ~> (Len(req) >= 1 /\ req[1].st = "resolved")

\* ---------------------------------------------------- effects of one step
\* A callback of the handle of w, channel is invoked in this step.
Invoked(w, channel) == Len(CallsOn(w, channel)') > Len(CallsOn(w, channel))

\* resolve or reject of a call on the handle of w, channel runs in this step.
SettleCalled(w, channel) ==
  \E r \in Requests :
    /\ req[r].win = w /\ req[r].chan = channel
    /\ req'[r].settles > req[r].settles

\* The flag of the handle of w, channel is written in this step.
Flipped(w, channel) == isSetup'[w][channel] # isSetup[w][channel]

\* The event the event loop of w dispatches next.
AtHead(w, P(_)) == inbox[w] # <<>> /\ P(Head(inbox[w]))

\* This step takes the oldest event of w off its queue and posts none to w.
Dequeues(w) == inbox[w] # <<>> /\ inbox'[w] = Tail(inbox[w])

\* C4: an envelope whose sender origin differs from the receiver's own never
\* invokes a callback, never resolves or rejects a call and never writes a
\* flag, whatever it carries: every step with one of these effects in w
\* dispatches an event of w's own origin, and the step that dispatches an event
\* of another origin changes nothing but the queue it is taken from.
C4_OriginGuard ==
  [][\A w \in LibWindows :
       /\ (\E c \in Channels : Invoked(w, c) \/ SettleCalled(w, c) \/ Flipped(w, c))
            => AtHead(w, LAMBDA e : e.origin = Origin(w))
       /\ (Dequeues(w) /\ AtHead(w, LAMBDA e : e.origin # Origin(w)))
            => /\ UNCHANGED <<isSetup, listeners, req, running, callLog, handlers>>
               /\ \A t \in Windows \ {w} : inbox'[t] = inbox[t]]_vars

\* A forged success response on the topic of a pending call, and a forged
\* request for a registered handler, are about to be dispatched.
C4_Witness ==
  /\ AtHead("main", LAMBDA e : /\ e.origin # Origin("main")
                               /\ e.data.channel = ResponseChannel("/greeting")
                               /\ e.data.success)
  /\ req # <<>> /\ req[1].st = "pending" /\ req[1].win = "main"
  /\ ResponseListener("/greeting", 1) \in Range(listeners["main"])
  /\ handlers["child"]["/greeting"] = 1
  /\ ENABLED Deliver("main")

\* C5: an envelope carrying a topic of one channel is ignored by both roles
\* of another: a callback of channel c runs only on an event whose topic is
\* the request topic of c, a call on c is settled only by an event whose topic
\* is the response topic of c, and the flag of c is written only on an event
\* whose topic is the request topic of c.
C5_TopicIsolation ==
  [][\A w \in LibWindows, c \in Channels :
       /\ Invoked(w, c) => AtHead(w, LAMBDA e : e.data.channel = RequestChannel(c))
       /\ SettleCalled(w, c)
            => AtHead(w, LAMBDA e : e.data.channel = ResponseChannel(c))
       /\ Flipped(w, c) => AtHead(w, LAMBDA e : e.data.channel = RequestChannel(c))]_vars

\* The call on "/greeting" has resolved while the call on "/message", whose
\* envelope reached the handlers first, is still pending and listening; the
\* handlers of both channels are registered and each ran once.
C5_Witness ==
  /\ Len(req) = 2
  /\ req[1].chan = "/greeting" /\ req[1].st = "resolved"
  /\ req[2].chan = "/message" /\ req[2].st = "pending"
  /\ ResponseListener("/message", 2) \in Range(listeners["main"])
  /\ handlers["child"]["/greeting"] = 1 /\ handlers["child"]["/message"] = 1
  /\ Len(callLog["child"]) = 2
  /\ callLog["child"][1].chan = "/message"

\* ------------------------------------------------------------ the setup gate
\* Of the handle of call r.
FlagOf(r) == isSetup[req[r].win][req[r].chan]

\* How often l is registered in w.
Registered(w, l) == Cardinality({i \in 1..Len(listeners[w]) : listeners[w][i] = l})

\* The request envelopes of call r that are queued anywhere.
QueuedOf(r) ==
  {<<t, i>> \in Windows \X (1..(MaxSerial * (MaxHandlers + 2))) :
     /\ i <= Len(inbox[t])
     /\ inbox[t][i] = [origin |-> Origin(req[r].win), source |-> req[r].win,
                       data |-> RequestMsg(req[r].chan, req[r].message)]}

\* A same-origin setup announcement on the request topic of the channel is
\* the event w dispatches next.
AnnouncementAtHead(w, channel) ==
  AtHead(w, LAMBDA e : /\ e.origin = Origin(w)
                       /\ e.data.channel = RequestChannel(channel)
                       /\ e.data.isSetup)

\* The calls made in this step.
NewCalls == (DOMAIN req') \ (DOMAIN req)

\* C6: a call made while the flag of its handle is false waits, and while it
\* waits it has posted nothing and has no response listener; it stops waiting
\* only in the step that dispatches a same-origin setup announcement on the
\* request topic in its own context.  A call made while the flag is true does
\* not wait: its body runs as the next step of its context, with no event
\* dispatched in between.
C6_SetupGate ==
  /\ [](\A r \in Requests :
          req[r].st \in {"waiting", "called"}
            => /\ req[r].posted = 0
               /\ Registered(req[r].win, ResponseListener(req[r].chan, r)) = 0)
  /\ [][/\ \A r \in NewCalls :
             LET w == req'[r].win  c == req'[r].chan IN
             /\ ~isSetup[w][c] => req'[r].st = "waiting" /\ req'[r].waited
             /\ isSetup[w][c]  => req'[r].st = "called" /\ ~req'[r].waited
        /\ \A r \in Requests :
             /\ (req[r].st = "waiting" /\ req'[r].st # "waiting")
                  => /\ AnnouncementAtHead(req[r].win, req[r].chan)
                     /\ Dequeues(req[r].win)
             /\ req[r].st = "called"
                  => /\ ~Dequeues(req[r].win)
                     /\ req'[r].st \in {"called", "pending"}
                     /\ ~req'[r].waited]_vars

\* One call waited for the announcement and was then posted; a second, made
\* with the flag set, was posted without waiting.
C6_Witness ==
  /\ Len(req) = 2
  /\ req[1].waited /\ req[1].posted = 1
  /\ ~req[2].waited /\ req[2].posted = 1 /\ req[2].st = "pending"
  /\ Registered("main", ResponseListener("/greeting", 2)) = 1

\* The calls waiting on the handle of w, channel.
Waiters(w, channel) ==
  {r \in Requests : req[r].win = w /\ req[r].chan = channel /\ req[r].st = "waiting"}

\* C7: the one step in which the flag of a handle becomes true, the dispatch
\* of a same-origin setup announcement on its request topic, takes every call
\* waiting on that handle, however many, to pending; each of them has then
\* posted exactly one request envelope, the queues of the targets grow by
\* exactly these envelopes, and no call ever posts twice.
C7_MultipleWaiters ==
  /\ [](\A r \in Requests : req[r].posted <= 1)
  /\ [][\A w \in LibWindows, c \in Channels :
          (~isSetup[w][c] /\ isSetup'[w][c])
            => /\ AnnouncementAtHead(w, c)
               /\ \A r \in Waiters(w, c) :
                    /\ req'[r].st = "pending" /\ req'[r].posted = 1
                    /\ Cardinality(QueuedOf(r)') >= 1
               /\ \A t \in LibWindows \ {w} :
                    /\ Len(inbox'[t]) = Len(inbox[t]) +
                         Cardinality({r \in Waiters(w, c) : req[r].windowObj = t})
                    /\ \A i \in (Len(inbox[t]) + 1)..Len(inbox'[t]) :
                         \E r \in Waiters(w, c) : <<t, i>> \in QueuedOf(r)']_vars

\* As many calls as the bound allows waited together, one announcement was
\* dispatched, and each call has its request envelope queued at the target.
C7_Witness ==
  /\ Len(req) = MaxRequests
  /\ \A r \in Requests : req[r].waited /\ req[r].st = "pending" /\ req[r].posted = 1
  /\ Len(inbox["child"]) = MaxRequests
  /\ \A i \in 1..MaxRequests : ~inbox["child"][i].data.isSetup
  /\ isSetup["main"]["/greeting"]
  /\ handlers["child"]["/greeting"] = 1

\* C8: the flag of every handle is false at the start and never goes from
\* true to false, whatever is called, registered or delivered; no call waits
\* while the flag of its handle is true, and a call made with the flag true
\* is never a waiter.
C8_StickyFlag ==
  /\ \A w \in LibWindows, c \in Channels : ~isSetup[w][c]
  /\ [][\A w \in LibWindows, c \in Channels : isSetup[w][c] => isSetup'[w][c]]_vars
  /\ [](\A r \in Requests : req[r].st = "waiting" => ~FlagOf(r))
  /\ [][\A r \in NewCalls :
          isSetup[req'[r].win][req'[r].chan] => req'[r].st # "waiting"]_vars

\* The flag is still set after a call was served and a second announcement
\* was dispatched, and the next call, made with the flag set, went out
\* without waiting.
C8_Witness ==
  /\ isSetup["main"]["/greeting"]
  /\ handlers["child"]["/greeting"] = 2
  /\ inbox["main"] = <<>>
  /\ Len(req) = 2
  /\ req[1].waited /\ req[1].st = "resolved"
  /\ ~req[2].waited /\ req[2].posted = 1

\* C9: a call past the gate has registered its response listener exactly
\* once: it is registered once while the call is pending and not at all
\* before; resolve or reject runs at most once for a call; and in every state
\* in which the call has settled its listener is not registered.
C9_ExactlyOnce ==
  /\ [](\A r \in Requests :
          LET n == Registered(req[r].win, ResponseListener(req[r].chan, r)) IN
          /\ req[r].settles <= 1
          /\ req[r].posted <= 1
          /\ req[r].st = "pending" => n = 1 /\ req[r].settles = 0 /\ req[r].posted = 1
          /\ Settled(r) => n = 0 /\ req[r].settles = 1 /\ req[r].posted = 1
          /\ req[r].st \in {"waiting", "called"} => n = 0 /\ req[r].settles = 0)
  /\ [][\A r \in Requests : Settled(r) => req'[r] = req[r]]_vars

\* Two handlers answered each of two concurrent calls: the first response
\* settled both calls, and the three further responses were dispatched with
\* no call pending.
C9_Witness ==
  /\ Len(req) = 2
  /\ \A r \in Requests : req[r].st = "resolved" /\ req[r].settles = 1 /\ req[r].waited
  /\ handlers["child"]["/greeting"] = 2
  /\ Len(callLog["child"]) = 4
  /\ running = <<>>
  /\ inbox["main"] = <<>> /\ inbox["child"] = <<>>
  /\ \A l \in Range(listeners["main"]) : l.kind # "response"

\* A request envelope of the channel that the handlers of w accept is the
\* event w dispatches next.
RequestAtHead(w, channel) ==
  AtHead(w, LAMBDA e : /\ e.origin = Origin(w)
                       /\ e.data.channel = RequestChannel(channel)
                       /\ ~e.data.isSetup)

\* C10: a listener registered by handle stays registered in every step, so
\* as many are registered as handle was called; every same-origin request
\* envelope dispatched on the channel, the first as the later ones, invokes
\* the callback of each of them; and a posted call is pending only while
\* something of the handle is still in flight, so each call in a row gets
\* its response.
C10_PersistentResponder ==
  /\ [](\A w \in LibWindows, c \in Channels :
          \A k \in 1..MaxHandlers + 1 :
            Registered(w, HandleListener(c, k)) = IF k <= handlers[w][c] THEN 1 ELSE 0)
  /\ [][\A w \in LibWindows, c \in Channels :
          /\ handlers'[w][c] >= handlers[w][c]
          /\ (RequestAtHead(w, c) /\ Dequeues(w))
               => Len(CallsOn(w, c)') = Len(CallsOn(w, c)) + handlers[w][c]]_vars
  /\ [](\A r \in Requests :
          (req[r].st = "pending" /\ handlers[req[r].windowObj][req[r].chan] >= 1)
            => InFlight(req[r].win, req[r].chan) > 0)

\* After one handle call, a first call was served and has resolved; the
\* second, posted after that, has invoked the callback again and its
\* response is the event the requester dispatches next.
C10_Witness ==
  /\ handlers["child"]["/greeting"] = 1
  /\ Len(req) = 2
  /\ req[1].st = "resolved" /\ req[2].st = "pending"
  /\ Len(callLog["child"]) = 2
  /\ AtHead("main", LAMBDA e : /\ e.data.channel = ResponseChannel("/greeting")
                               /\ e.data.success)
  /\ Registered("child", HandleListener("/greeting", 1)) = 1

\* A same-origin envelope on the response topic of the channel is the event
\* w dispatches next.
ResponseAtHead(w, channel) ==
  AtHead(w, LAMBDA e : /\ e.origin = Origin(w)
                       /\ e.data.channel = ResponseChannel(channel))

\* C11: a call never settles on its own.  The only step that takes a call
\* from unsettled to settled dispatches a same-origin envelope on its
\* response topic in its context; where no such envelope is ever posted (the
\* callback never settles, the target has no handler, the announcement never
\* comes, responses come from another origin only) every call is unsettled
\* in every state.
C11_NoTimeout ==
  /\ [][\A r \in Requests :
          (Unsettled(r) /\ ~Unsettled(r)')
            => /\ ResponseAtHead(req[r].win, req[r].chan)
               /\ Dequeues(req[r].win)]_vars
  /\ [](\A r \in Requests : Unsettled(r) /\ req[r].settles = 0)

\* Two calls were posted, one to the context whose callback was invoked and
\* has not settled, one to a context without a handler; every queue has been
\* dispatched and both calls are still pending.
C11_Witness ==
  /\ Len(req) = 2
  /\ \A r \in Requests : req[r].st = "pending" /\ req[r].posted = 1
  /\ {req[r].windowObj : r \in Requests} = LibWindows
  /\ \A w \in Windows : inbox[w] = <<>>
  /\ Len(running) = 1 /\ Len(callLog["child"]) = 1

\* The response envelopes queued at w.
Responses(w) ==
  SelectSeq(inbox[w], LAMBDA e : e.data.channel[1] = "response:/")

\* C12: with handle called n times on a handle, n = 2 included, the dispatch
\* of an accepted request envelope invokes the callback of each registration
\* exactly once, in registration order and with the payload of the
\* envelope; each invocation that settles posts one response envelope of its
\* own, so that one request yields as many response envelopes as there are
\* registrations.
C12_DoubleRegistration ==
  /\ [][\A w \in LibWindows, c \in Channels :
          (RequestAtHead(w, c) /\ Dequeues(w))
            => LET n == Len(callLog[w]) IN
               /\ Len(callLog'[w]) = n + handlers[w][c]
               /\ \A k \in 1..handlers[w][c] :
                    callLog'[w][n + k] =
                      [chan |-> c, k |-> k, data |-> Head(inbox[w]).data.data]
               /\ Len(running') = Len(running) + handlers[w][c]]_vars
  /\ [][Len(running') < Len(running)
          => /\ Len(running') = Len(running) - 1
             /\ \E t \in LibWindows :
                  /\ Len(Responses(t)') = Len(Responses(t)) + 1
                  /\ \A u \in LibWindows \ {t} : Responses(u)' = Responses(u)]_vars
  /\ [](\A w \in LibWindows :
          Len(Responses(w)) + Len(running) <= Len(callLog["main"]) + Len(callLog["child"]))

\* handle was called twice before the one request was posted: both callbacks
\* ran once, both have settled, and two response envelopes are queued at the
\* requester.
C12_Witness ==
  /\ handlers["child"]["/greeting"] = 2
  /\ Len(req) = 1 /\ req[1].st = "pending"
  /\ callLog["child"] = <<[chan |-> "/greeting", k |-> 1, data |-> "john"],
                          [chan |-> "/greeting", k |-> 2, data |-> "john"]>>
  /\ running = <<>>
  /\ Len(Responses("main")) = 2
  /\ inbox["child"] = <<>>

\* C13: when the event dispatched in the context of a pending call is a
\* same-origin envelope on its response topic with success false and no error
\* message, the error field absent or its msg undefined, the call rejects
\* with the string "Unknown error".
C13_UnknownErrorFallback ==
  [][\A r \in Requests :
       (/\ req[r].st = "pending"
        /\ Dequeues(req[r].win)
        /\ AtHead(req[r].win, LAMBDA e : /\ e.origin = Origin(req[r].win)
                                         /\ e.data.channel = ResponseChannel(req[r].chan)
                                         /\ ~e.data.success
                                         /\ ErrorMsgOf(e.data) = Undefined))
         => /\ req'[r].st = "rejected"
            /\ req'[r].value = "Unknown error"
            /\ req'[r].settles = 1]_vars

\* The callback fulfils for every payload posted, so the call that has
\* rejected with "Unknown error" was settled by a hand-made failure envelope
\* without a message.
C13_Witness ==
  \E r \in Requests :
    /\ req[r].st = "rejected" /\ req[r].value = "Unknown error"
    /\ req[r].windowObj = "child"
    /\ Registered("main", ResponseListener("/greeting", r)) = 0

\* C14: the dispatch of a same-origin envelope on a request topic with
\* isSetup true invokes no callback, starts nothing that could answer, and
\* posts no response envelope, also when the context that dispatches it is
\* the one that posted it (window.parent of the responder is the responder).
C14_SetupIsNotARequest ==
  [][\A w \in LibWindows :
       (/\ Dequeues(w)
        /\ AtHead(w, LAMBDA e : /\ e.origin = Origin(w)
                                /\ e.data.channel[1] = "request:/"
                                /\ e.data.isSetup))
         => /\ callLog' = callLog
            /\ running' = running
            /\ \A t \in LibWindows : Responses(t)' = Responses(t)]_vars

\* "child" is its own parent and called handle twice: its second
\* announcement was dispatched to its two registered handlers, and no
\* callback has run.
C14_Witness ==
  /\ parent["child"] = "child"
  /\ handlers["child"]["/greeting"] = 2
  /\ Registered("child", HandleListener("/greeting", 1)) = 1
  /\ Registered("child", HandleListener("/greeting", 2)) = 1
  /\ inbox["child"] = <<>>
  /\ isSetup["child"]["/greeting"]
  /\ callLog["child"] = <<>> /\ running = <<>>

\* The response envelope due for a callback invocation, field by field.
Due(call) ==
  LET out == Callback(call.data) IN
  [origin |-> Origin(call.win), source |-> call.win,
   data |-> IF out.ok
            THEN [channel |-> ResponseChannel(call.chan), success |-> TRUE,
                  isSetup |-> FALSE, data |-> out.value, error |-> NoError]
            ELSE [channel |-> ResponseChannel(call.chan), success |-> FALSE,
                  isSetup |-> FALSE, data |-> Undefined,
                  error |-> <<[msg |-> out.message, stack |-> "stack"]>>]]

\* C15: every callback invocation remembers the context and the origin its
\* request envelope came from; the step in which its promise settles posts
\* exactly one envelope, to that context: on the response topic, with
\* success true and the returned data if the callback fulfilled, with success
\* false and an error if it rejected.  No response envelope is posted in any
\* other step, hence none before the callback settles.
C15_OneResponsePerInvocation ==
  /\ [][\A w \in LibWindows, c \in Channels :
          (RequestAtHead(w, c) /\ Dequeues(w))
            => \A i \in (Len(running) + 1)..Len(running') :
                 /\ running'[i].source = Head(inbox[w]).source
                 /\ running'[i].origin = Origin(Head(inbox[w]).source)
                 /\ running'[i].data = Head(inbox[w]).data.data]_vars
  /\ [][Len(running') < Len(running)
          => \E i \in DOMAIN running :
               /\ running' = [j \in 1..(Len(running) - 1) |->
                                IF j < i THEN running[j] ELSE running[j + 1]]
               /\ inbox' = [inbox EXCEPT ![running[i].source] =
                                            Append(@, Due(running[i]))]]_vars
  /\ [][\A t \in LibWindows :
          Len(Responses(t)') > Len(Responses(t))
            => Len(running') = Len(running) - 1]_vars

\* A fulfilled and a rejected invocation have both settled: their two
\* envelopes are queued at the requester, the success with the value and the
\* failure with the message of the error.
C15_Witness ==
  /\ running = <<>>
  /\ Len(callLog["child"]) = 2
  /\ Len(inbox["main"]) = 2
  /\ \E i, j \in 1..2 :
       /\ inbox["main"][i].data = SuccessMsg("/greeting", "hello john")
       /\ inbox["main"][j].data = ErrorMsg("/greeting", "bad input")
       /\ inbox["main"][i].source = "child" /\ inbox["main"][j].source = "child"

\* ------------------------------------------------- who writes the setup flag
\* The envelopes the module itself posts, as events of w's own origin.
ProbeEvents(w) ==
  {[origin |-> Origin(w), source |-> s, data |-> m] :
     s \in LibWindows,
     m \in UNION {{SetupMsg(c), RequestMsg(c, "john"), SuccessMsg(c, "hello john"),
                   ErrorMsg(c, "bad input")} : c \in Channels}}

\* The state with the flags of w all set to b.
WithFlags(w, b) == [Store EXCEPT !.isSetup[w] = [c \in Channels |-> b]]

\* Listener l of w assigns no flag, whatever event it is run on and whatever
\* the flags are.
WritesNoFlag(w, l) ==
  \A e \in ProbeEvents(w), b \in BOOLEAN :
    Invoke(WithFlags(w, b), w, e, l).isSetup = WithFlags(w, b).isSetup

\* The value of a flag changes only in the dispatch of a same-origin
\* announcement on its request topic to the standing listener of its handle,
\* and no other flag changes with it.
ChangedByStandingListener ==
  \A w \in LibWindows, c \in Channels :
    isSetup'[w][c] # isSetup[w][c]
      => /\ AnnouncementAtHead(w, c) /\ Dequeues(w)
         /\ Registered(w, SetupListener(c, 0)) = 1
         /\ isSetup'[w][c]
         /\ \A w2 \in LibWindows, c2 \in Channels :
              (<<w2, c2>> # <<w, c>> /\ ~AnnouncementAtHead(w2, c2))
                => isSetup'[w2][c2] = isSetup[w2][c2]

\* C16 as stated: no registered listener other than the standing setup
\* listener of createChannel assigns the flag, the listeners request calls
\* create included, and no step changes it but a dispatch to the standing
\* listener.
C16_SingleWriterAsStated ==
  /\ [](\A w \in LibWindows : \A l \in Range(listeners[w]) :
          (l.kind = "setup" => l.id # 0) => WritesNoFlag(w, l))
  /\ [][ChangedByStandingListener]_vars

\* C16: the flag is assigned by the onMessage callbacks of processSetupMsg
\* only: the response listeners of request and the messageHandler of handle
\* assign no flag, and an onMessage callback, standing or registered for a
\* waiting call, assigns the flag of its own handle on a same-origin
\* announcement on its request topic and nothing otherwise.  The value of a
\* flag changes only in a dispatch to the standing listener: a waiter's
\* assignment finds it true.  request, handle and settling callbacks leave
\* the flags alone.
C16_FlagWriters ==
  /\ [](\A w \in LibWindows : \A l \in Range(listeners[w]) :
          /\ l.kind # "setup" => WritesNoFlag(w, l)
          /\ l.kind = "setup"
               => \A e \in ProbeEvents(w), b \in BOOLEAN :
                    Invoke(WithFlags(w, b), w, e, l).isSetup =
                      IF e.data = SetupMsg(l.chan)
                      THEN [WithFlags(w, b).isSetup EXCEPT ![w][l.chan] = TRUE]
                      ELSE WithFlags(w, b).isSetup)
  /\ [][ChangedByStandingListener]_vars

\* The flag of "main" is set; the two calls that waited for it are pending,
\* their own setup listeners gone and their response listeners registered,
\* while the handler of "child" is registered.
C16_Witness ==
  /\ isSetup["main"]["/greeting"]
  /\ Len(req) = 2
  /\ \A r \in Requests :
       /\ req[r].waited /\ req[r].st = "pending"
       /\ Registered("main", SetupListener("/greeting", r)) = 0
       /\ Registered("main", ResponseListener("/greeting", r)) = 1
  /\ Registered("child", HandleListener("/greeting", 1)) = 1

\* C17: with calls A and B pending together on one handle, with different
\* payloads, the dispatch of the response the handler produced for the
\* payload of A resolves B with that response; the state in which B has
\* resolved with the value computed for A is reachable.
C17_RaceHazard ==
  [][\A a, b \in Requests :
       (/\ a # b
        /\ req[a].st = "pending" /\ req[b].st = "pending"
        /\ req[a].win = req[b].win /\ req[a].chan = req[b].chan
        /\ req[a].message # req[b].message
        /\ Callback(req[a].message).ok
        /\ Dequeues(req[a].win)
        /\ AtHead(req[a].win,
                  LAMBDA e : /\ e.origin = Origin(req[a].win)
                             /\ e.data = SuccessMsg(req[a].chan,
                                                    Callback(req[a].message).value)))
         => /\ req'[b].st = "resolved"
            /\ req'[b].value = Callback(req[a].message).value
            /\ req'[b].value # Callback(req[b].message).value]_vars

\* Two calls only: A with "john", B with "mary", and B has resolved with
\* the greeting for john.
C17_Witness ==
  /\ Len(req) = 2
  /\ req[1].message = "john" /\ req[1].st = "resolved" /\ req[1].value = "hello john"
  /\ req[2].message = "mary" /\ req[2].st = "resolved" /\ req[2].value = "hello john"
  /\ handlers["child"]["/greeting"] = 1

\* The calls pending on the handle of w, channel.
PendingOn(w, channel) ==
  {r \in Requests : req[r].win = w /\ req[r].chan = channel /\ req[r].st = "pending"}

\* C18: the dispatch of one same-origin envelope on the response topic
\* settles every call pending on the handle, two or more included, in that
\* one step and alike: all resolved with the data of the envelope if it is
\* a success, all rejected with one and the same reason if not, and the
\* listener of each is removed.  Dispatched while no call is pending on the
\* handle, such an envelope changes nothing but the queue it is taken from.
C18_OneResponseSettlesAll ==
  [][\A w \in LibWindows, c \in Channels :
       (ResponseAtHead(w, c) /\ Dequeues(w))
         => LET e == Head(inbox[w]).data IN
            /\ \A r \in PendingOn(w, c) :
                 /\ req'[r].st = IF e.success THEN "resolved" ELSE "rejected"
                 /\ e.success => req'[r].value = e.data
                 /\ ~e.success => req'[r].value \in {e.error[1].msg, "Unknown error"}
                 /\ req'[r].settles = 1
                 /\ Registered(w, ResponseListener(c, r))' = 0
                 /\ \A p \in PendingOn(w, c) : req'[p].value = req'[r].value
            /\ PendingOn(w, c) = {}
                 => /\ UNCHANGED <<isSetup, listeners, req, running, callLog, handlers>>
                    /\ \A t \in Windows \ {w} : inbox'[t] = inbox[t]]_vars

\* Three calls with different payloads waited together and were posted
\* together; the first response, a failure, rejected all three with its
\* message, and the two later responses were dispatched with no call
\* pending.
C18_Witness ==
  /\ Len(req) = 3
  /\ req[1].message = "bad" /\ req[2].message = "john" /\ req[3].message = "blank"
  /\ \A r \in Requests :
       req[r].waited /\ req[r].st = "rejected" /\ req[r].value = "bad input"
  /\ Len(callLog["child"]) = 3
  /\ running = <<>>
  /\ inbox["main"] = <<>> /\ inbox["child"] = <<>>
  /\ \A l \in Range(listeners["main"]) : l.kind # "response"

\* C19: an announcement dispatched in a context before createChannel has
\* run there is lost: it changes nothing but the queue, and a context
\* without the handle has no flag set and no setup listener.  createChannel
\* starts the handle with the flag false and puts nothing back into any
\* queue; a call on a handle whose flag is false is held with nothing
\* posted, and the flag becomes true only in the dispatch of a further
\* same-origin announcement on the request topic.
C19_AnnouncementNotRemembered ==
  /\ [](\A w \in LibWindows, c \in Channels :
          ~created[w][c] => ~isSetup[w][c] /\ Registered(w, SetupListener(c, 0)) = 0)
  /\ [](\A r \in Requests : ~FlagOf(r) => req[r].st = "waiting" /\ req[r].posted = 0)
  /\ [][\A w \in LibWindows, c \in Channels :
          /\ (~created[w][c] /\ AnnouncementAtHead(w, c) /\ Dequeues(w))
               => UNCHANGED <<created, isSetup, listeners, req, running, callLog>>
          /\ (~created[w][c] /\ created'[w][c])
               => ~isSetup'[w][c] /\ inbox' = inbox
          /\ (~isSetup[w][c] /\ isSetup'[w][c])
               => created[w][c] /\ AnnouncementAtHead(w, c) /\ Dequeues(w)]_vars

\* "child", an iframe of "main", called handle once and its announcement
\* has been dispatched; "main" ran createChannel after that: its flag is
\* false and its call is held, nothing posted.
C19_Witness ==
  /\ parent["child"] = "main"
  /\ handlers["child"]["/greeting"] = 1
  /\ created["main"]["/greeting"]
  /\ inbox["main"] = <<>>
  /\ ~isSetup["main"]["/greeting"]
  /\ Len(req) = 1 /\ req[1].st = "waiting" /\ req[1].posted = 0
  /\ inbox["child"] = <<>>

\* C20: the dispatch of an envelope that has the local origin and the
\* response topic settles every call pending on the handle, whichever
\* context posted it: also when the sender is not the context the call
\* posted its request to.  A success resolves the call with the data of the
\* envelope, a failure rejects it.
C20_AnySameOriginSenderSettles ==
  [][\A r \in Requests :
       (/\ req[r].st = "pending"
        /\ Dequeues(req[r].win)
        /\ ResponseAtHead(req[r].win, req[r].chan))
         => LET e == Head(inbox[req[r].win]) IN
            /\ e.source \in LibWindows
            /\ req'[r].st = IF e.data.success THEN "resolved" ELSE "rejected"
            /\ e.data.success => req'[r].value = e.data.data]_vars

\* A call that "main" posted to itself, where no handler is registered, has
\* resolved with the data of an envelope a script in "child" posted, and
\* another such call was rejected by one.
C20_Witness ==
  /\ Len(req) = 2
  /\ \A r \in Requests : req[r].windowObj = "main"
  /\ req[1].st = "resolved" /\ req[1].value = "crafted"
  /\ req[2].st = "rejected" /\ req[2].value = "boom"
  /\ callLog["child"] = <<>>

====
